---- MODULE Spec2Model ----
(***************************************************************************)
(* Model of the Azure Data Explorer / Kusto MCP server: the KustoHandler   *)
(* (connection cache, parameter validation, response envelope) and the     *)
(* ADXServer request router that dispatches tool calls to it.              *)
(*                                                                         *)
(* Strings the code computes with (cluster identities, database names) are *)
(* sequences of one-character strings, so that startsWith and template     *)
(* concatenation are computed as the code computes them.  Fixed texts that *)
(* the code only copies around (error messages, tool names) are atoms.     *)
(*                                                                         *)
(* An async function is cut at the awaits on external I/O (the credential  *)
(* provider, the Kusto query): each piece between two such awaits is one   *)
(* action.  The microtask hop of `await this.getClient(...)` is folded     *)
(* into the preceding piece: the value of the promise (the client handle)  *)
(* is fixed when getClient returns and the continuation reads no shared    *)
(* state before it issues the query.                                       *)
(***************************************************************************)
EXTENDS Integers, Sequences, FiniteSets, TLC

(* ------------------------------ bounds --------------------------------- *)

\* number of operation calls that may be in flight at the same time
MaxInFlight == 2
\* largest number of rows a query result carries
MaxRows == 1
\* largest value of the millisecond clock read by Date.now()
MaxClock == 1

\* interrupt signals delivered to one process
MaxSignals == 1

(* ------------------------------ strings -------------------------------- *)

\* JavaScript `undefined`: no character sequence equals it, because every
\* element of a character sequence is a one-character string
Undefined == <<"undefined">>

\* !v for v a string or undefined
Falsy(v) == v = Undefined \/ v = <<>>

\* a resolution in which the environment default wins over the per-call value
OrElseEnvFirst(a, b) == IF Falsy(b) THEN a ELSE b

\* a || b
OrElse(a, b) == IF Falsy(a) THEN b ELSE a

\* String.prototype.startsWith
StartsWith(s, p) == Len(s) >= Len(p) /\ SubSeq(s, 1, Len(p)) = p

HttpsPrefix == <<"h", "t", "t", "p", "s", ":", "/", "/">>

KustoSuffix ==
    <<".", "k", "u", "s", "t", "o", ".", "w", "i", "n", "d", "o", "w", "s",
      ".", "n", "e", "t">>

\* a formatClusterUrl that prefixes and suffixes every input
FormatClusterUrlAlways(cluster) == HttpsPrefix \o cluster \o KustoSuffix

\* KustoHandler.formatClusterUrl
FormatClusterUrl(cluster) ==
    IF StartsWith(cluster, HttpsPrefix)
    THEN cluster
    ELSE HttpsPrefix \o cluster \o KustoSuffix

(* ------------------------------ inputs --------------------------------- *)

\* short cluster names
ShortNames == {<<"a">>, <<"A">>, <<"b">>}

FullUrl(s) == HttpsPrefix \o s \o KustoSuffix

\* values of params.clusterUrl
ClusterInputs == {Undefined, <<>>} \cup ShortNames \cup {FullUrl(s) : s \in ShortNames}

\* values of params.database
DatabaseInputs == {Undefined, <<>>, <<"d">>}

\* values of process.env.KUSTO_DEFAULT_CLUSTER
EnvClusters == {Undefined, <<>>, <<"a">>}

\* values of process.env.KUSTO_DEFAULT_DATABASE
EnvDatabases == {Undefined, <<>>, <<"e">>}

\* the query text "T | take 1"
QueryText == <<"T", " ", "|", " ", "t", "a", "k", "e", " ", "1">>

(* --------------------------- fixed texts ------------------------------- *)

NotInitializedMsg == "KustoHandler not initialized. Call initialize() first."

ClusterRequiredMsg ==
    "Cluster URL must be provided either in parameters or via KUSTO_DEFAULT_CLUSTER environment variable"

DatabaseRequiredMsg ==
    "Database must be provided either in parameters or via KUSTO_DEFAULT_DATABASE environment variable"

UnknownErrorMsg == "Unknown error occurred while executing Kusto query"

\* messages of the errors the external libraries raise
TokenErrorMsg == "AzureCliCredential authentication failed"

QueryErrorMsg == "Kusto query execution failed"

ParseErrorMsg == "Unexpected token in JSON"

NoPrimaryMsg == "Cannot read properties of undefined (reading 'toString')"

\* the message of an error raised while the handlers are set up
InitErrorMsg == "Handler initialization failed"

\* the message of the error a rejected server.connect carries
ConnectErrorMsg == "Transport connection failed"

(* ------------------------------- state --------------------------------- *)

VARIABLES
    env,                \* process.env: the KUSTO_DEFAULT_* and ADX_DEFAULT_* variables
    initialized,        \* KustoHandler.initialized
    kustoClient,        \* KustoHandler.kustoClient: the cached handle, or NoClient
    currentClusterUrl,  \* KustoHandler.currentClusterUrl, or Null
    calls,              \* the operation calls suspended at an await, by slot
    done,               \* the call that completed in the last step, or IdleCall
    serverDef,          \* which definition of ADXServer in index.ts is running
    phase,              \* progress of ADXServer.run()
    now,                \* Date.now()
    shutdown            \* the steps the SIGINT handlers have performed, in order

handlerVars == <<initialized, kustoClient, currentClusterUrl>>

serverVars == <<serverDef, phase, now, shutdown>>

vars ==
    <<env, initialized, kustoClient, currentClusterUrl, calls, done,
      serverDef, phase, now, shutdown>>

CallIds == 1..MaxInFlight

\* JavaScript null in currentClusterUrl
Null == <<"null">>

\* kustoClient = null
NoClient == [url |-> Null, arg |-> Null, prev |-> Null]

\* a handle bound to the cluster argument as given, not to formattedUrl
NewClientUnformatted(formattedUrl, clusterUrl) ==
    [url |-> clusterUrl, arg |-> clusterUrl, prev |-> currentClusterUrl]

\* the handle `new KustoClient(kcsb)` yields: it is bound to the connection
\* string built from formattedUrl; arg remembers the clusterUrl argument of
\* the getClient call that built it, prev the currentClusterUrl that the
\* assignment after it overwrites
NewClient(formattedUrl, clusterUrl) ==
    [url |-> formattedUrl, arg |-> clusterUrl, prev |-> currentClusterUrl]

NoParams == [query |-> Undefined, database |-> Undefined, clusterUrl |-> Undefined]

\* request.params.arguments when the request carries none
NoArgs ==
    [present |-> FALSE, query |-> Undefined, database |-> Undefined,
     clusterUrl |-> Undefined]

NoResult == [content |-> <<>>]

NoError == [kind |-> "none", code |-> "", message |-> "", arg |-> ""]

NoEvent == [name |-> "none", duration |-> 0, status |-> "none"]

\* a free slot
IdleCall ==
    [pc |-> "idle", via |-> "none", name |-> "none", args |-> NoArgs, op |-> "none",
     params |-> NoParams, clusterUrl |-> Undefined, formattedUrl |-> Null,
     database |-> Undefined, client |-> NoClient, reused |-> FALSE,
     tokenReqs |-> 0, constructs |-> 0, execs |-> 0,
     payload |-> "none", caught |-> "",
     result |-> NoResult, thrown |-> NoError,
     startTime |-> 0, status |-> "none", event |-> NoEvent, eventCount |-> 0]

(* --------------------------- response shaping --------------------------- *)

\* the optional `data` argument of prepareResponseObj
NoData == [present |-> FALSE, rows |-> <<>>]

SomeData(rows) == [present |-> TRUE, rows |-> rows]

\* `Query executed successfully. Retrieved ${data.length} rows.`
RowsMessage(n) == <<"Query executed successfully. Retrieved ", n, " rows.">>

\* the row count the message states
StatedRows(message) == message[2]

\* KustoHandler.prepareResponseObj; error = "" stands for an absent or empty
\* error text
PrepareResponseObj(params, success, data, error) ==
    LET baseInput ==
            [clusterUrl |-> FormatClusterUrl(
                                OrElse(params.clusterUrl,
                                       OrElse(env.KUSTO_DEFAULT_CLUSTER, <<>>))),
             database |-> OrElse(params.database,
                                 OrElse(env.KUSTO_DEFAULT_DATABASE, <<>>)),
             query |-> params.query]
    IN  IF success /\ data.present
        THEN [success |-> success, input |-> baseInput, data |-> data.rows,
              message |-> RowsMessage(Len(data.rows))]
        ELSE [success |-> success, input |-> baseInput,
              error |-> IF error = "" THEN UnknownErrorMsg ELSE error]

\* the value executeQuery returns from its try block
SuccessResponse(params, rowData) ==
    [content |-> <<[type |-> "text",
                    text |-> PrepareResponseObj(params, TRUE, rowData, "")]>>]

\* a catch block that returns the failure envelope without the isError flag
FailureResponseNoFlag(params, message) ==
    [content |-> <<[type |-> "text",
                    text |-> PrepareResponseObj(params, FALSE, NoData, message)]>>]

\* the value executeQuery returns from its catch block
FailureResponse(params, message) ==
    [content |-> <<[type |-> "text",
                    text |-> PrepareResponseObj(params, FALSE, NoData, message)]>>,
     isError |-> TRUE]

\* the envelope a response carries (JSON.parse(result.content[0].text))
Envelope(result) == result.content[1].text

IsErrorSet(result) == "isError" \in DOMAIN result /\ result.isError

(* ------------------------------ handler -------------------------------- *)

\* what `await client.execute(...)` and the parsing of its result can yield:
\* a payload whose data field is an array of n rows, a payload without a data
\* field, a payload JSON.parse rejects, a result without a primary table, or
\* a rejected query
ExecOutcomes ==
    {[kind |-> "rows", n |-> n] : n \in 0..MaxRows}
        \cup {[kind |-> k, n |-> 0] : k \in {"nodata", "unparsable", "noprimary", "rejected"}}

\* the rows of a payload with n rows
Rows(n) == [i \in 1..n |-> "row"]

\* rawData.data of a parsed payload
RawData(outcome) == IF outcome.kind = "rows" THEN SomeData(Rows(outcome.n)) ELSE NoData

\* a rowData without the `|| []` default
RowDataNoDefault(rawData) == rawData

\* const rowData = rawData.data || []
RowData(rawData) == IF rawData.present THEN SomeData(rawData.rows) ELSE SomeData(<<>>)

\* the message of the error raised while awaiting and parsing the result
ExecError(outcome) ==
    CASE outcome.kind = "rejected" -> QueryErrorMsg
      [] outcome.kind = "noprimary" -> NoPrimaryMsg
      [] outcome.kind = "unparsable" -> ParseErrorMsg
      [] OTHER -> ""

\* a guard that builds a handle only when none is cached
NeedsNewClientOnlyWhenEmpty(formattedUrl) == kustoClient = NoClient

\* the guard of getClient: !this.kustoClient || this.currentClusterUrl !== formattedUrl
NeedsNewClient(formattedUrl) ==
    kustoClient = NoClient \/ currentClusterUrl # formattedUrl

\* the parameter checks without the initialization check
ValidationErrorNoInit(params) ==
    IF Falsy(params.clusterUrl) /\ Falsy(env.KUSTO_DEFAULT_CLUSTER)
    THEN ClusterRequiredMsg
    ELSE IF Falsy(params.database) /\ Falsy(env.KUSTO_DEFAULT_DATABASE)
         THEN DatabaseRequiredMsg
    ELSE ""

\* the parameter checks with the database checked before the cluster
ValidationErrorDatabaseFirst(params) ==
    IF ~initialized THEN NotInitializedMsg
    ELSE IF Falsy(params.database) /\ Falsy(env.KUSTO_DEFAULT_DATABASE)
         THEN DatabaseRequiredMsg
    ELSE IF Falsy(params.clusterUrl) /\ Falsy(env.KUSTO_DEFAULT_CLUSTER)
         THEN ClusterRequiredMsg
    ELSE ""

\* the parameter checks with the database default read from the cluster variable
ValidationErrorNoEnvDatabase(params) ==
    IF ~initialized THEN NotInitializedMsg
    ELSE IF Falsy(params.clusterUrl) /\ Falsy(env.KUSTO_DEFAULT_CLUSTER)
         THEN ClusterRequiredMsg
    ELSE IF Falsy(params.database) /\ Falsy(env.KUSTO_DEFAULT_CLUSTER)
         THEN DatabaseRequiredMsg
    ELSE ""

\* the parameter checks at the head of executeQuery: the message of the error
\* thrown, or "" when none is
ValidationError(params) ==
    IF ~initialized THEN NotInitializedMsg
    ELSE IF Falsy(params.clusterUrl) /\ Falsy(env.KUSTO_DEFAULT_CLUSTER)
         THEN ClusterRequiredMsg
    ELSE IF Falsy(params.database) /\ Falsy(env.KUSTO_DEFAULT_DATABASE)
         THEN DatabaseRequiredMsg
    ELSE ""

\* an initialize() that also drops the cached connection
InitializeResets ==
    /\ initialized' = TRUE
    /\ kustoClient' = NoClient
    /\ currentClusterUrl' = Null
    /\ done' = IdleCall
    /\ UNCHANGED <<env, calls, serverDef, shutdown, phase, now>>

\* KustoHandler.initialize
Initialize ==
    /\ initialized' = TRUE
    /\ done' = IdleCall
    /\ UNCHANGED <<env, kustoClient, currentClusterUrl, calls, serverDef, shutdown, phase, now>>

\* a finally block that takes the status from the envelope of the result
EmitToolInvokedFromEnvelope(call) ==
    IF serverDef = 1
    THEN [call EXCEPT !.event = [name |-> call.name,
                                 duration |-> now - call.startTime,
                                 status |-> IF IsErrorSet(call.result)
                                            THEN "failure"
                                            ELSE call.status],
                      !.eventCount = @ + 1]
    ELSE call

\* the finally block of the CallToolRequestSchema handler: the first
\* definition of ADXServer hands a TOOL_INVOKED event to the logger, the
\* second computes the duration and emits nothing
EmitToolInvoked(call) ==
    IF serverDef = 1
    THEN [call EXCEPT !.event = [name |-> call.name,
                                 duration |-> now - call.startTime,
                                 status |-> call.status],
                      !.eventCount = @ + 1]
    ELSE call

\* the caller's side of a handler call that returned: nothing for a direct
\* call; for a tool call the request handler resumes after
\* `await this.handleToolCall(...)`, runs its finally block and returns the result
Completed(call) ==
    IF call.via = "router"
    THEN EmitToolInvoked([call EXCEPT !.pc = "responded"])
    ELSE call

\* executeQuery from its entry to its first await on external I/O, for the
\* call in slot c whose caller-side fields are in base
HandlerEnter(c, base, params) ==
    LET err == ValidationError(params)
        clusterUrl == OrElse(params.clusterUrl, env.KUSTO_DEFAULT_CLUSTER)
        database == OrElse(params.database, env.KUSTO_DEFAULT_DATABASE)
        formattedUrl == FormatClusterUrl(clusterUrl)
        entered == [base EXCEPT !.params = params]
    IN  IF err # ""
        THEN /\ done' = Completed([entered EXCEPT
                                       !.pc = "returned",
                                       !.caught = err,
                                       !.result = FailureResponse(params, err)])
             /\ UNCHANGED <<calls, handlerVars>>
        ELSE IF NeedsNewClient(formattedUrl)
        THEN /\ calls' = [calls EXCEPT ![c] =
                    [entered EXCEPT !.pc = "awaitToken",
                                    !.clusterUrl = clusterUrl,
                                    !.formattedUrl = formattedUrl,
                                    !.database = database,
                                    !.tokenReqs = @ + 1]]
             /\ done' = IdleCall
             /\ UNCHANGED handlerVars
        ELSE /\ calls' = [calls EXCEPT ![c] =
                    [entered EXCEPT !.pc = "awaitExecute",
                                    !.clusterUrl = clusterUrl,
                                    !.formattedUrl = formattedUrl,
                                    !.database = database,
                                    !.client = kustoClient,
                                    !.reused = TRUE,
                                    !.execs = @ + 1]]
             /\ done' = IdleCall
             /\ UNCHANGED handlerVars

\* a new call takes the first free slot
FirstFree(c) ==
    /\ calls[c].pc = "idle"
    /\ \A d \in CallIds : d < c => calls[d].pc # "idle"

\* no call is suspended: the caller awaited every call it made
NoneInFlight == \A c \in CallIds : calls[c].pc = "idle"

\* a caller invokes handler.executeQuery(params) directly
ExecuteQuery(c, params) ==
    /\ FirstFree(c)
    /\ HandlerEnter(c, [IdleCall EXCEPT !.via = "direct", !.op = "executeQuery"], params)
    /\ UNCHANGED <<env, serverDef, shutdown, phase, now>>

\* a getClient that, once the credential is granted, keeps whatever handle
\* another call has cached in the meantime
TokenResolvedKeepsCached(c) ==
    /\ calls[c].pc = "awaitToken"
    /\ kustoClient' = IF kustoClient # NoClient
                      THEN kustoClient
                      ELSE NewClient(calls[c].formattedUrl, calls[c].clusterUrl)
    /\ currentClusterUrl' = kustoClient'.url
    /\ calls' = [calls EXCEPT ![c].pc = "awaitExecute",
                              ![c].client = kustoClient',
                              ![c].constructs = @ + 1,
                              ![c].execs = @ + 1]
    /\ done' = IdleCall
    /\ UNCHANGED <<env, initialized, serverDef, shutdown, phase, now>>

\* getClient after `await credential.getToken(...)` resolves, up to the
\* client.execute call of executeQuery
TokenResolved(c) ==
    /\ calls[c].pc = "awaitToken"
    /\ kustoClient' = NewClient(calls[c].formattedUrl, calls[c].clusterUrl)
    /\ currentClusterUrl' = calls[c].formattedUrl
    /\ calls' = [calls EXCEPT ![c].pc = "awaitExecute",
                              ![c].client = kustoClient',
                              ![c].constructs = @ + 1,
                              ![c].execs = @ + 1]
    /\ done' = IdleCall
    /\ UNCHANGED <<env, initialized, serverDef, shutdown, phase, now>>

\* a rejected getToken whose error leaves executeQuery (getClient awaited
\* outside the try block)
TokenRejectedEscapes(c) ==
    /\ calls[c].pc = "awaitToken"
    /\ done' = [calls[c] EXCEPT !.pc = "threw",
                                !.thrown = [kind |-> "Error", code |-> "",
                                            message |-> TokenErrorMsg, arg |-> ""]]
    /\ calls' = [calls EXCEPT ![c] = IdleCall]
    /\ UNCHANGED <<env, initialized, kustoClient, currentClusterUrl, serverDef, shutdown, phase, now>>

\* a rejected getToken that is requested again
TokenRejectedRetries(c) ==
    /\ calls[c].pc = "awaitToken"
    /\ calls' = [calls EXCEPT ![c].tokenReqs = @ + 1]
    /\ done' = IdleCall
    /\ UNCHANGED <<env, handlerVars, serverDef, shutdown, phase, now>>

\* `await credential.getToken(...)` rejects: getClient rethrows and the catch
\* block of executeQuery answers
TokenRejected(c) ==
    /\ calls[c].pc = "awaitToken"
    /\ done' = Completed([calls[c] EXCEPT
                              !.pc = "returned",
                              !.caught = TokenErrorMsg,
                              !.result = FailureResponse(calls[c].params, TokenErrorMsg)])
    /\ calls' = [calls EXCEPT ![c] = IdleCall]
    /\ UNCHANGED <<env, handlerVars, serverDef, shutdown, phase, now>>

\* a catch block that drops the cached connection when the query or the
\* parsing of its result fails
ExecuteSettledDropsClient(c, outcome) ==
    /\ calls[c].pc = "awaitExecute"
    /\ done' = Completed([calls[c] EXCEPT
                              !.pc = "returned",
                              !.payload = outcome.kind,
                              !.caught = ExecError(outcome),
                              !.result =
                                  IF ExecError(outcome) = ""
                                  THEN SuccessResponse(calls[c].params,
                                                       RowData(RawData(outcome)))
                                  ELSE FailureResponse(calls[c].params,
                                                       ExecError(outcome))])
    /\ calls' = [calls EXCEPT ![c] = IdleCall]
    /\ IF ExecError(outcome) = ""
       THEN UNCHANGED <<kustoClient, currentClusterUrl>>
       ELSE kustoClient' = NoClient /\ currentClusterUrl' = Null
    /\ UNCHANGED <<env, initialized, serverDef, shutdown, phase, now>>

\* executeQuery after `await client.execute(...)` settles
ExecuteSettled(c, outcome) ==
    /\ calls[c].pc = "awaitExecute"
    /\ done' = Completed([calls[c] EXCEPT
                              !.pc = "returned",
                              !.payload = outcome.kind,
                              !.caught = ExecError(outcome),
                              !.result =
                                  IF ExecError(outcome) = ""
                                  THEN SuccessResponse(calls[c].params,
                                                       RowData(RawData(outcome)))
                                  ELSE FailureResponse(calls[c].params,
                                                       ExecError(outcome))])
    /\ calls' = [calls EXCEPT ![c] = IdleCall]
    /\ UNCHANGED <<env, handlerVars, serverDef, shutdown, phase, now>>

\* process.env as the handler reads it
EnvOf(cluster, database) ==
    [KUSTO_DEFAULT_CLUSTER |-> cluster, KUSTO_DEFAULT_DATABASE |-> database,
     ADX_DEFAULT_CLUSTER |-> Undefined, ADX_DEFAULT_DATABASE |-> Undefined]

\* a KustoHandler right after `new KustoHandler()`, in any environment
Init ==
    /\ env \in {EnvOf(cl, db) : cl \in EnvClusters, db \in EnvDatabases}
    /\ initialized = FALSE
    /\ kustoClient = NoClient
    /\ currentClusterUrl = Null
    /\ calls = [c \in CallIds |-> IdleCall]
    /\ done = IdleCall
    /\ serverDef = 1
    /\ phase = "constructed"
    /\ now = 0
    /\ shutdown = <<>>

Next ==
    \/ Initialize
    \/ \E c \in CallIds, cl \in ClusterInputs, db \in DatabaseInputs :
           /\ NoneInFlight
           /\ ExecuteQuery(c, [query |-> QueryText, database |-> db, clusterUrl |-> cl])
    \/ \E c \in CallIds : TokenResolved(c)
    \/ \E c \in CallIds : TokenRejected(c)
    \/ \E c \in CallIds, outcome \in ExecOutcomes : ExecuteSettled(c, outcome)

\* the handler driven by a caller that awaits each call before the next
Spec == Init /\ [][Next]_vars

(* ------------------------- overlapping callers ------------------------- *)

\* the cluster arguments of overlapping calls: absent (the default), a full
\* URL of the default cluster, and another cluster
ConcClusterInputs == {Undefined, FullUrl(<<"a">>), <<"b">>}

\* what the queries of overlapping calls yield: an empty result or a rejection
ConcOutcomes == {o \in ExecOutcomes : o.n = 0 /\ o.kind \in {"rows", "rejected"}}

ConcInit ==
    /\ env = EnvOf(<<"a">>, <<"e">>)
    /\ initialized = FALSE
    /\ kustoClient = NoClient
    /\ currentClusterUrl = Null
    /\ calls = [c \in CallIds |-> IdleCall]
    /\ done = IdleCall
    /\ serverDef = 1
    /\ phase = "constructed"
    /\ now = 0
    /\ shutdown = <<>>

ConcNext ==
    \/ Initialize
    \/ \E c \in CallIds, cl \in ConcClusterInputs :
           ExecuteQuery(c, [query |-> QueryText, database |-> Undefined,
                            clusterUrl |-> cl])
    \/ \E c \in CallIds : TokenResolved(c)
    \/ \E c \in CallIds : TokenRejected(c)
    \/ \E c \in CallIds, outcome \in ConcOutcomes : ExecuteSettled(c, outcome)

\* the handler driven by callers that do not wait for each other: a call may
\* start while others are suspended at an await
ConcSpec == ConcInit /\ [][ConcNext]_vars

(* ------------------------------- server -------------------------------- *)

\* the tool names of the schema, and a name no definition of the server knows
ToolNames == {"execute_kusto_query", "list_tables", "get_table_schema", "drop_table"}

\* the names handleToolCall compares against
KnownTools ==
    IF serverDef = 1
    THEN {"execute_kusto_query"}
    ELSE {"execute_kusto_query", "list_tables", "get_table_schema"}

\* the handler method handleToolCall delegates a known name to
ToolOp(name) ==
    CASE name = "execute_kusto_query" -> "executeQuery"
      [] name = "list_tables" -> "listTables"
      [] name = "get_table_schema" -> "getTableSchema"
      [] OTHER -> "none"

\* the default-cluster variable handleToolCall reads
RouterDefaultCluster ==
    IF serverDef = 1 THEN env.KUSTO_DEFAULT_CLUSTER ELSE env.ADX_DEFAULT_CLUSTER

\* the default-database variable handleToolCall reads
RouterDefaultDatabase ==
    IF serverDef = 1 THEN env.KUSTO_DEFAULT_DATABASE ELSE env.ADX_DEFAULT_DATABASE

RouterClusterRequiredMsg ==
    IF serverDef = 1
    THEN ClusterRequiredMsg
    ELSE "Cluster URL must be provided either in parameters or via ADX_DEFAULT_CLUSTER environment variable"

RouterDatabaseRequiredMsg ==
    IF serverDef = 1
    THEN DatabaseRequiredMsg
    ELSE "Database must be provided either in parameters or via ADX_DEFAULT_DATABASE environment variable"

McpInvalidParams(message, arg) ==
    [kind |-> "McpError", code |-> "InvalidParams", message |-> message, arg |-> arg]

\* reading a property of `undefined` arguments
ArgsTypeError ==
    [kind |-> "TypeError", code |-> "",
     message |-> "Cannot read properties of undefined", arg |-> ""]

\* a handleToolCall that delegates every name it does not know to executeQuery
ToolCallErrorNoUnknown(name, args) ==
    IF ~args.present THEN ArgsTypeError
    ELSE IF Falsy(args.clusterUrl) /\ Falsy(RouterDefaultCluster)
         THEN McpInvalidParams(RouterClusterRequiredMsg, "")
    ELSE IF Falsy(args.database) /\ Falsy(RouterDefaultDatabase)
         THEN McpInvalidParams(RouterDatabaseRequiredMsg, "")
    ELSE NoError

\* the error handleToolCall throws before it reaches the handler, or NoError
ToolCallError(name, args) ==
    IF name \notin KnownTools THEN McpInvalidParams("Unknown tool name", name)
    ELSE IF ~args.present THEN ArgsTypeError
    ELSE IF Falsy(args.clusterUrl) /\ Falsy(RouterDefaultCluster)
         THEN McpInvalidParams(RouterClusterRequiredMsg, "")
    ELSE IF Falsy(args.database) /\ Falsy(RouterDefaultDatabase)
         THEN McpInvalidParams(RouterDatabaseRequiredMsg, "")
    ELSE NoError

\* ADXHandler.listTables and ADXHandler.getTableSchema: the validation, the
\* connection resolution and the envelope of executeQuery, with the query
\* text of their own
MetadataOperation(c, base, params) == HandlerEnter(c, base, params)

\* the CallToolRequestSchema handler from its entry, through handleToolCall,
\* to the first await on external I/O of the handler operation
CallTool(c, name, args) ==
    LET base == [IdleCall EXCEPT !.via = "router", !.name = name, !.args = args,
                                 !.startTime = now, !.status = "success"]
        err == ToolCallError(name, args)
    IN  /\ phase = "connected"
        /\ FirstFree(c)
        /\ IF err # NoError
           THEN /\ done' = EmitToolInvoked([base EXCEPT !.pc = "threw",
                                                        !.status = "failure",
                                                        !.thrown = err])
                /\ UNCHANGED <<calls, handlerVars>>
           ELSE IF ToolOp(name) = "executeQuery"
           THEN HandlerEnter(c, [base EXCEPT !.op = "executeQuery"],
                             [query |-> args.query, database |-> args.database,
                              clusterUrl |-> args.clusterUrl])
           ELSE MetadataOperation(c, [base EXCEPT !.op = ToolOp(name)],
                                  [query |-> Undefined, database |-> args.database,
                                   clusterUrl |-> args.clusterUrl])
        /\ UNCHANGED <<env, serverDef, shutdown, phase, now>>

\* run() up to the return of initializeHandlers: the handler is initialized,
\* then the request handlers are registered
RunInitializeHandlers ==
    /\ phase = "constructed"
    /\ initialized' = TRUE
    /\ phase' = "registered"
    /\ done' = IdleCall
    /\ UNCHANGED <<env, kustoClient, currentClusterUrl, calls, serverDef, shutdown, now>>

\* a run() that connects to the transport before the handlers are initialized
RunConnectBeforeInit ==
    /\ phase = "constructed"
    /\ phase' = "connected"
    /\ done' = IdleCall
    /\ UNCHANGED <<env, handlerVars, calls, serverDef, shutdown, now>>

\* run(): `await this.server.connect(transport)` resolves
RunConnect ==
    /\ phase = "registered"
    /\ phase' = "connected"
    /\ done' = IdleCall
    /\ UNCHANGED <<env, handlerVars, calls, serverDef, shutdown, now>>

\* the catch block of run() for an error with the given message: the first
\* definition hands it to logger.error and emits SERVER_ERROR, the second
\* writes it to console.error; both rethrow it
RunFailure(message) ==
    [IdleCall EXCEPT !.via = "run", !.pc = "threw", !.caught = message,
                     !.thrown = [kind |-> "Error", code |-> "",
                                 message |-> message, arg |-> ""],
                     !.event = IF serverDef = 1
                               THEN [name |-> "SERVER_ERROR", duration |-> 0,
                                     status |-> "startup"]
                               ELSE NoEvent]

\* run(): `await this.initializeHandlers()` rejects, with an error raised
\* after initialize() has set its flag (by its console.log or by the
\* registration of the request handlers); run() reports it and rethrows it
RunInitializeFails ==
    /\ phase = "constructed"
    /\ initialized' = TRUE
    /\ phase' = "failed"
    /\ done' = RunFailure(InitErrorMsg)
    /\ UNCHANGED <<env, kustoClient, currentClusterUrl, calls, serverDef, shutdown, now>>

\* run(): `await this.server.connect(transport)` rejects; run() reports the
\* error and rethrows it
RunConnectFails ==
    /\ phase = "registered"
    /\ phase' = "failed"
    /\ done' = RunFailure(ConnectErrorMsg)
    /\ UNCHANGED <<env, handlerVars, calls, serverDef, shutdown, now>>

\* the clock Date.now() reads advances
Tick ==
    /\ now < MaxClock
    /\ now' = now + 1
    /\ done' = IdleCall
    /\ UNCHANGED <<env, handlerVars, calls, serverDef, shutdown, phase>>

\* the environments a server runs in: the first definition reads the
\* KUSTO_DEFAULT_* variables in the router and in the handler, the second
\* reads ADX_DEFAULT_* in the router
ServerEnvs ==
    {EnvOf(cl, db) : cl \in EnvClusters, db \in EnvDatabases}
        \cup {[KUSTO_DEFAULT_CLUSTER |-> kc, KUSTO_DEFAULT_DATABASE |-> kd,
               ADX_DEFAULT_CLUSTER |-> ac, ADX_DEFAULT_DATABASE |-> ad] :
                  kc \in {Undefined, <<"a">>}, kd \in {Undefined, <<"e">>},
                  ac \in {Undefined, <<"a">>}, ad \in {Undefined, <<"e">>}}

\* the arguments objects of the tool calls
ToolArgs ==
    {NoArgs} \cup
    [present : {TRUE}, query : {QueryText}, database : {Undefined, <<"d">>},
     clusterUrl : {Undefined, <<>>, <<"a">>, FullUrl(<<"A">>)}]

\* an ADXServer right after its constructor, of either definition
ServerInit ==
    /\ serverDef \in {1, 2}
    /\ env \in ServerEnvs
    /\ serverDef = 1 =>
           env.ADX_DEFAULT_CLUSTER = Undefined /\ env.ADX_DEFAULT_DATABASE = Undefined
    /\ initialized = FALSE
    /\ kustoClient = NoClient
    /\ currentClusterUrl = Null
    /\ calls = [c \in CallIds |-> IdleCall]
    /\ done = IdleCall
    /\ phase = "constructed"
    /\ now = 0
    /\ shutdown = <<>>

ServerNext ==
    \/ RunInitializeHandlers
    \/ RunConnect
    \/ RunConnectFails
    \/ RunInitializeFails
    \/ \E c \in CallIds, name \in ToolNames, args \in ToolArgs :
           /\ NoneInFlight
           /\ CallTool(c, name, args)
    \/ \E c \in CallIds : TokenResolved(c)
    \/ \E c \in CallIds : TokenRejected(c)
    \/ \E c \in CallIds, outcome \in ExecOutcomes : ExecuteSettled(c, outcome)
    \/ Tick

\* the server, with a client that sends a tool call after the answer to the
\* previous one
ServerSpec == ServerInit /\ [][ServerNext]_vars

(* ------------------------------ lifecycle ------------------------------ *)

\* how many times the step occurs in shutdown
Count(step) == Cardinality({i \in DOMAIN shutdown : shutdown[i] = step})

\* the SIGINT handlers suspended at `await this.server.close()`
PendingCloses ==
    Count("serverCloseCalled") - Count("serverClosed") - Count("serverCloseFailed")

\* process.exit(0) has been called
Exited == Count("exit0") > 0

\* the SIGINT handler up to its await: the first definition logs and emits
\* SERVER_SHUTDOWN through the logger, the second writes to the console;
\* both then call this.server.close()
Sigint ==
    /\ Count("shutdownLogged") < MaxSignals
    /\ shutdown' = shutdown \o
           (IF serverDef = 1
            THEN <<"shutdownLogged", "shutdownEvent", "serverCloseCalled">>
            ELSE <<"shutdownLogged", "serverCloseCalled">>)
    /\ done' = IdleCall
    /\ UNCHANGED <<env, handlerVars, calls, serverDef, phase, now>>

\* `await this.server.close()` resolves: the first definition closes the
\* logger and exits, the second exits
ServerCloseResolved ==
    /\ PendingCloses > 0
    /\ shutdown' = shutdown \o
           (IF serverDef = 1
            THEN <<"serverClosed", "loggerClosed", "exit0">>
            ELSE <<"serverClosed", "exit0">>)
    /\ done' = IdleCall
    /\ UNCHANGED <<env, handlerVars, calls, serverDef, phase, now>>

\* `await this.server.close()` rejects: the handler ends there
ServerCloseRejected ==
    /\ PendingCloses > 0
    /\ shutdown' = Append(shutdown, "serverCloseFailed")
    /\ done' = IdleCall
    /\ UNCHANGED <<env, handlerVars, calls, serverDef, phase, now>>

\* a server of either definition whose environment holds every default
LifecycleInit ==
    /\ ServerInit
    /\ env.KUSTO_DEFAULT_CLUSTER = <<"a">>
    /\ env.KUSTO_DEFAULT_DATABASE = <<"e">>
    /\ serverDef = 2 =>
           env.ADX_DEFAULT_CLUSTER = <<"a">> /\ env.ADX_DEFAULT_DATABASE = <<"e">>

\* the arguments of the tool calls sent while the server is shut down
LifecycleArgs ==
    {[present |-> TRUE, query |-> QueryText, database |-> Undefined,
      clusterUrl |-> Undefined]}

\* nothing runs once process.exit(0) was called
LifecycleNext ==
    /\ ~Exited
    /\ \/ RunInitializeHandlers
       \/ RunConnect
       \/ RunConnectFails
       \/ RunInitializeFails
       \/ \E c \in CallIds, args \in LifecycleArgs :
              CallTool(c, "execute_kusto_query", args)
       \/ \E c \in CallIds : TokenResolved(c)
       \/ \E c \in CallIds : TokenRejected(c)
       \/ \E c \in CallIds, outcome \in ConcOutcomes : ExecuteSettled(c, outcome)
       \/ Sigint
       \/ ServerCloseResolved
       \/ ServerCloseRejected

\* the server process from construction to exit, with interrupt signals
\* arriving at any time and tool calls that overlap
LifecycleSpec == LifecycleInit /\ [][LifecycleNext]_vars

(* ------------------------------- claims -------------------------------- *)

InFlight(c) == calls[c].pc # "idle"

\* the handler call recorded in `done` has handed its response to the caller
Returned == done.pc = "returned"

\* letter-case folding of the letters the inputs use
LowerChar(ch) == IF ch = "A" THEN "a" ELSE IF ch = "B" THEN "b" ELSE ch

ToLower(s) == [i \in 1..Len(s) |-> LowerChar(s[i])]

\* x and y are the same characters up to letter case, and not the same string
CaseVariants(x, y) == x # y /\ Len(x) = Len(y) /\ ToLower(x) = ToLower(y)

\* one of x, y is a short cluster name and the other its full URL
ShortAndFull(x, y) ==
    \E n \in ShortNames : (x = n /\ y = FullUrl(n)) \/ (y = n /\ x = FullUrl(n))

\* the call record r went through getClient without a credential request and
\* without constructing a handle
ReusedCache(r) ==
    /\ r.pc \in {"awaitExecute", "returned"}
    /\ r.reused
    /\ r.tokenReqs = 0
    /\ r.constructs = 0
    /\ r.client.url = r.formattedUrl

\* C1: on an initialized handler called sequentially, a call whose cluster
\* identity differs only in letter case from the one the cached handle was
\* built for reuses the cached handle: it requests no credential and
\* constructs no client.
C1_CaseVariantReusesCachedHandle ==
    /\ \A c \in CallIds :
           (InFlight(c) /\ kustoClient # NoClient
                /\ CaseVariants(kustoClient.arg, calls[c].clusterUrl))
               => ReusedCache(calls[c]) /\ calls[c].client = kustoClient
    /\ (Returned /\ kustoClient # NoClient
            /\ CaseVariants(kustoClient.arg, done.clusterUrl))
           => ReusedCache(done)

\* C2: a short cluster name and its full URL normalize to the same identity,
\* and on a handler called sequentially a call that gives one form while the
\* cached handle was built for the other form reuses the cached handle: it
\* requests no credential and constructs no client.
C2_ShortAndFullFormShareHandle ==
    /\ \A n \in ShortNames : FormatClusterUrl(n) = FormatClusterUrl(FullUrl(n))
    /\ \A c \in CallIds :
           (InFlight(c) /\ kustoClient # NoClient
                /\ ShortAndFull(kustoClient.arg, calls[c].clusterUrl))
               => ReusedCache(calls[c]) /\ calls[c].client = kustoClient
    /\ (Returned /\ kustoClient # NoClient
            /\ ShortAndFull(kustoClient.arg, done.clusterUrl))
           => ReusedCache(done)

\* a call in flight reuses a handle that was built for the other form of its
\* cluster identity
C2_Witness ==
    \E c \in CallIds :
        /\ calls[c].pc = "awaitExecute"
        /\ calls[c].reused
        /\ ShortAndFull(kustoClient.arg, calls[c].clusterUrl)

\* the response in `done` is one text block holding a failure envelope with
\* the error text msg, flagged isError
IsFailure(r, msg) ==
    /\ Len(r.result.content) = 1
    /\ r.result.content[1].type = "text"
    /\ Envelope(r.result).success = FALSE
    /\ "error" \in DOMAIN Envelope(r.result)
    /\ Envelope(r.result).error = msg
    /\ "data" \notin DOMAIN Envelope(r.result)
    /\ IsErrorSet(r.result)

\* the call record r touched neither the credential provider nor the cluster
NoNetwork(r) == r.tokenReqs = 0 /\ r.constructs = 0 /\ r.execs = 0

\* C3: while initialize() has not run, every executeQuery call returns at once
\* a failure envelope with the "not initialized" text and isError set; it
\* throws nothing, requests no credential, constructs no client, issues no
\* query, and no call is ever left in flight.
C3_UninitializedFails ==
    ~initialized =>
        /\ \A c \in CallIds : ~InFlight(c)
        /\ kustoClient = NoClient
        /\ done.pc \in {"idle", "returned"}
        /\ Returned =>
               /\ IsFailure(done, NotInitializedMsg)
               /\ done.thrown = NoError
               /\ NoNetwork(done)

\* an uninitialized handler has answered a call that named a cluster and a
\* database
C3_Witness ==
    /\ ~initialized
    /\ Returned
    /\ ~Falsy(done.params.clusterUrl)
    /\ ~Falsy(done.params.database)

\* the call in `done` had no cluster identity, per call or by default
NoCluster(r) == Falsy(r.params.clusterUrl) /\ Falsy(env.KUSTO_DEFAULT_CLUSTER)

\* the call in `done` had no database, per call or by default
NoDatabase(r) == Falsy(r.params.database) /\ Falsy(env.KUSTO_DEFAULT_DATABASE)

\* C4: on an initialized handler, a call with no cluster identity per call and
\* none in the environment returns the failure envelope with the cluster-URL
\* text in the step that starts it, with no credential request, no client
\* construction, no query, and the cache and the calls in flight unchanged.
C4_MissingClusterFails ==
    [][(initialized /\ done'.pc # "idle" /\ NoCluster(done'))
           => /\ IsFailure(done', ClusterRequiredMsg)
              /\ done'.thrown = NoError
              /\ NoNetwork(done')
              /\ UNCHANGED <<kustoClient, currentClusterUrl, calls>>]_vars

\* a call without any cluster identity has been answered while a handle was
\* cached
C4_Witness ==
    /\ initialized
    /\ Returned
    /\ NoCluster(done)
    /\ kustoClient # NoClient

\* C5: on an initialized handler, a call whose cluster identity resolves but
\* whose database is absent per call and in the environment returns the
\* failure envelope with the database text in the step that starts it, with no
\* credential request, no client construction and no query.
C5_MissingDatabaseFails ==
    [][(initialized /\ done'.pc # "idle" /\ ~NoCluster(done') /\ NoDatabase(done'))
           => /\ IsFailure(done', DatabaseRequiredMsg)
              /\ done'.thrown = NoError
              /\ NoNetwork(done')
              /\ UNCHANGED <<kustoClient, currentClusterUrl, calls>>]_vars

\* a call with a cluster identity and no database has been answered
C5_Witness ==
    /\ initialized
    /\ Returned
    /\ ~NoCluster(done)
    /\ NoDatabase(done)
    /\ IsFailure(done, DatabaseRequiredMsg)

\* C6: executeQuery never throws: every call that ends has returned one text
\* block; when an error was raised inside it (not initialized, missing
\* parameter, credential failure, query failure, unparsable or malformed
\* payload) the block holds a failure envelope with that error's message and
\* isError is set.
C6_NeverThrows ==
    done.pc # "idle" =>
        /\ Returned
        /\ done.thrown = NoError
        /\ Len(done.result.content) = 1
        /\ done.result.content[1].type = "text"
        /\ done.caught # "" => IsFailure(done, done.caught)
        /\ done.caught = "" => Envelope(done.result).success

\* a call has answered a rejected credential request
C6_Witness ==
    /\ Returned
    /\ done.tokenReqs = 1
    /\ done.caught = TokenErrorMsg
    /\ IsFailure(done, TokenErrorMsg)

\* C7: in every response whose envelope says success, the data field and the
\* message field are present and the number of rows in data is the row count
\* the message states; a response to a query that ran without error is such a
\* response, also when the payload has zero rows or no data field.
C7_RowCountMatches ==
    Returned =>
        /\ (done.execs = 1 /\ done.caught = "") => Envelope(done.result).success
        /\ Envelope(done.result).success =>
               /\ "data" \in DOMAIN Envelope(done.result)
               /\ "message" \in DOMAIN Envelope(done.result)
               /\ Len(Envelope(done.result).data)
                      = StatedRows(Envelope(done.result).message)
               /\ ~IsErrorSet(done.result)

\* a query whose payload had no data field has been answered with zero rows
C7_Witness ==
    /\ Returned
    /\ done.payload = "nodata"
    /\ Envelope(done.result).success
    /\ StatedRows(Envelope(done.result).message) = 0

\* the tool call recorded in `done` has been answered or has thrown
RouterDone == done.via = "router"

\* the three operations of the tool schema
SchemaTools == {"execute_kusto_query", "list_tables", "get_table_schema"}

\* the handler operation that belongs to a tool name of the schema
MatchingOperation(name) ==
    IF name = "execute_kusto_query" THEN "executeQuery"
    ELSE IF name = "list_tables" THEN "listTables"
    ELSE "getTableSchema"

\* C8: a tool call whose name is not one of the operations ends in a thrown
\* invalid-parameters protocol error "Unknown tool name" in the step that
\* starts it, whatever its arguments and the environment are; it returns no
\* envelope and no handler operation is invoked for it.
C8_UnknownToolThrows ==
    /\ \A c \in CallIds : InFlight(c) => calls[c].name \in SchemaTools
    /\ (RouterDone /\ done.name \notin SchemaTools) =>
           /\ done.pc = "threw"
           /\ done.thrown = McpInvalidParams("Unknown tool name", done.name)
           /\ done.result = NoResult
           /\ done.op = "none"
           /\ NoNetwork(done)

\* a call of an unknown tool has thrown on a connected server whose
\* environment names a default cluster and a default database
C8_Witness ==
    /\ RouterDone
    /\ done.name = "drop_table"
    /\ done.pc = "threw"
    /\ ~Falsy(env.KUSTO_DEFAULT_CLUSTER)
    /\ ~Falsy(env.KUSTO_DEFAULT_DATABASE)

\* C9: each of the three operation names execute_kusto_query, list_tables and
\* get_table_schema is dispatched to the matching handler operation once the
\* router's parameter checks pass; none of the three names yields the
\* unknown-tool error.
C9_SchemaToolsDispatch ==
    /\ \A c \in CallIds :
           InFlight(c) => calls[c].op = MatchingOperation(calls[c].name)
    /\ (RouterDone /\ done.name \in SchemaTools) =>
           /\ done.thrown.message # "Unknown tool name"
           /\ done.pc = "responded" => done.op = MatchingOperation(done.name)

\* C10: every tool invocation the request handler has finished, by returning
\* or by throwing, has emitted exactly one TOOL_INVOKED event that carries the
\* tool name, the elapsed time and a status.
C10_OneEventPerInvocation ==
    RouterDone =>
        /\ done.eventCount = 1
        /\ done.event.name = done.name
        /\ done.event.duration = now - done.startTime
        /\ done.event.status \in {"success", "failure"}
        /\ done.pc = "threw" => done.event.status = "failure"

\* the tool call r carried no cluster identity and the variable the router
\* reads holds none
RouterNoCluster(r) == Falsy(r.args.clusterUrl) /\ Falsy(RouterDefaultCluster)

\* the tool call r carried no database and the variable the router reads
\* holds none
RouterNoDatabase(r) == Falsy(r.args.database) /\ Falsy(RouterDefaultDatabase)

\* the request handler threw err for the tool call r before any handler
\* operation was invoked
ThrownBeforeHandler(r, err) ==
    /\ r.pc = "threw"
    /\ r.thrown = err
    /\ r.op = "none"
    /\ NoNetwork(r)

\* C11: a tool call of a name the router knows that has no cluster identity,
\* in its arguments or in the default, is answered with the invalid-parameters
\* error about the cluster, also when the database is missing too; one that
\* has a cluster identity but no database is answered with the
\* invalid-parameters error about the database; in both cases no handler
\* operation is invoked, and no call without the two is ever in flight.
C11_RouterRejectsMissingParameters ==
    /\ \A c \in CallIds :
           (InFlight(c) /\ calls[c].via = "router") =>
               ~RouterNoCluster(calls[c]) /\ ~RouterNoDatabase(calls[c])
    /\ (RouterDone /\ done.name \in KnownTools /\ RouterNoCluster(done)) =>
           ThrownBeforeHandler(done, McpInvalidParams(RouterClusterRequiredMsg, ""))
    /\ (RouterDone /\ done.name \in KnownTools
            /\ ~RouterNoCluster(done) /\ RouterNoDatabase(done)) =>
           ThrownBeforeHandler(done, McpInvalidParams(RouterDatabaseRequiredMsg, ""))

\* C12 as stated: whatever the request handler throws for a tool call is the
\* unknown-tool error, and every tool call of a known name is answered with
\* an envelope.
C12_OnlyUnknownToolThrown ==
    RouterDone =>
        /\ done.pc = "threw" =>
               done.thrown = McpInvalidParams("Unknown tool name", done.name)
        /\ done.name \in KnownTools => done.pc = "responded"

\* the errors handleToolCall raises before it calls the handler
RouterErrors(r) ==
    {McpInvalidParams("Unknown tool name", r.name),
     McpInvalidParams(RouterClusterRequiredMsg, ""),
     McpInvalidParams(RouterDatabaseRequiredMsg, ""),
     ArgsTypeError}

\* C12, amended: once the router has invoked a handler operation, every
\* error (initialization, parameter, authentication, execution) reaches the
\* caller as a failure envelope with the error text and nothing is thrown;
\* what the request handler throws is raised by the router before any handler
\* operation is invoked: the unknown-tool error, the invalid-parameters error
\* for a cluster identity or database absent from the arguments and from the
\* router's default, and the TypeError of a call without arguments object.
C12_HandlerErrorsAreEnvelopes ==
    RouterDone =>
        /\ done.pc \in {"threw", "responded"}
        /\ done.pc = "threw" =>
               /\ done.op = "none"
               /\ done.result = NoResult
               /\ NoNetwork(done)
               /\ done.thrown \in RouterErrors(done)
        /\ done.op # "none" =>
               /\ done.pc = "responded"
               /\ done.thrown = NoError
               /\ done.caught # "" => IsFailure(done, done.caught)
               /\ done.caught = "" => ~IsErrorSet(done.result)

\* a tool call whose credential request was rejected has been answered
C12_Witness ==
    /\ RouterDone
    /\ done.pc = "responded"
    /\ done.caught = TokenErrorMsg
    /\ IsFailure(done, TokenErrorMsg)

\* the cluster identity the call r must use: its own when it has one, the
\* environment default otherwise
ExpectedCluster(r) ==
    IF r.params.clusterUrl \notin {Undefined, <<>>}
    THEN r.params.clusterUrl
    ELSE env.KUSTO_DEFAULT_CLUSTER

\* the database the call r must use
ExpectedDatabase(r) ==
    IF r.params.database \notin {Undefined, <<>>}
    THEN r.params.database
    ELSE env.KUSTO_DEFAULT_DATABASE

\* the call r connects to its expected cluster and addresses its expected
\* database
ResolvedAsExpected(r) ==
    /\ r.clusterUrl = ExpectedCluster(r)
    /\ r.formattedUrl = FormatClusterUrl(ExpectedCluster(r))
    /\ r.database = ExpectedDatabase(r)
    /\ r.execs = 1 => r.client.url = r.formattedUrl

\* C13: every executeQuery call that passed validation uses the per-call
\* cluster identity and database when given and the environment default
\* otherwise, for the connection and for the database the query is issued
\* against, and a success envelope echoes the normalized URL of that cluster
\* and that database.
C13_PerCallValueOverridesDefault ==
    /\ \A c \in CallIds : InFlight(c) => ResolvedAsExpected(calls[c])
    /\ (Returned /\ done.tokenReqs + done.execs > 0) => ResolvedAsExpected(done)
    /\ (Returned /\ Envelope(done.result).success) =>
           /\ done.execs = 1
           /\ Envelope(done.result).input.clusterUrl = done.client.url
           /\ Envelope(done.result).input.clusterUrl =
                  FormatClusterUrl(ExpectedCluster(done))
           /\ Envelope(done.result).input.database = done.database
           /\ Envelope(done.result).input.database = ExpectedDatabase(done)

\* a call that gave only the query text has succeeded against the default
\* cluster and the default database
C13_Witness ==
    /\ Returned
    /\ done.params = [query |-> QueryText, database |-> Undefined,
                      clusterUrl |-> Undefined]
    /\ env.KUSTO_DEFAULT_CLUSTER = <<"a">>
    /\ env.KUSTO_DEFAULT_DATABASE = <<"e">>
    /\ Envelope(done.result).success
    /\ Envelope(done.result).input.clusterUrl = FullUrl(<<"a">>)
    /\ Envelope(done.result).input.database = <<"e">>
    /\ done.client.url = FullUrl(<<"a">>)
    /\ done.database = <<"e">>

\* C14: every response executeQuery returns is one text block whose envelope
\* has the success flag and the echo of the input; isError is set exactly
\* when success is false; a success envelope has data and message and no
\* error, a failure envelope has a non-empty error and no data.
C14_EnvelopeShape ==
    Returned =>
        LET res == done.result
            e == Envelope(done.result)
        IN  /\ Len(res.content) = 1
            /\ res.content[1].type = "text"
            /\ {"success", "input"} \subseteq DOMAIN e
            /\ e.success \in BOOLEAN
            /\ DOMAIN e.input = {"clusterUrl", "database", "query"}
            /\ e.input.query = done.params.query
            /\ IsErrorSet(res) <=> ~e.success
            /\ e.success => /\ {"data", "message"} \subseteq DOMAIN e
                            /\ "error" \notin DOMAIN e
            /\ ~e.success => /\ "error" \in DOMAIN e
                             /\ e.error # ""
                             /\ {"data", "message"} \cap DOMAIN e = {}

\* a success response with rows and a failure response of a rejected query
\* are both reachable; this is the failure one
C14_Witness ==
    /\ Returned
    /\ done.payload = "rejected"
    /\ ~Envelope(done.result).success
    /\ IsErrorSet(done.result)
    /\ Envelope(done.result).error = QueryErrorMsg

\* the step completes the credential request of the call in slot c and
\* builds a handle
TokenResolution(c) ==
    /\ calls[c].pc = "awaitToken"
    /\ calls'[c].pc = "awaitExecute"
    /\ calls'[c].constructs = calls[c].constructs + 1

\* C16: no step takes an initialized handler back to uninitialized, and the
\* cached handle and the cached identity change only in a step that builds a
\* handle after a granted credential request; an initialize() call, the first
\* or a repeated one, changes neither.
C16_InitializeIsOneWay ==
    [][/\ initialized => initialized'
       /\ (kustoClient' # kustoClient \/ currentClusterUrl' # currentClusterUrl)
              => \E c \in CallIds : TokenResolution(c)]_vars

\* initialize() has run again on a handler that holds a cached handle: the
\* record of the last completed call is cleared, the cache is still there
C16_Witness ==
    /\ initialized
    /\ NoneInFlight
    /\ done = IdleCall
    /\ kustoClient # NoClient
    /\ currentClusterUrl = kustoClient.url

\* C17: a call that passes validation requests a credential exactly when no
\* handle is cached or the cached identity differs from its normalized
\* identity, and otherwise takes the cached handle with no credential request
\* and no construction, the cache unchanged; a granted request builds one
\* handle for the call's identity that replaces the cached one, so a call for
\* an identity that was replaced earlier builds again.
C17_ConstructsExactlyOnMiss ==
    [][\A c \in CallIds :
           /\ (calls[c].pc = "idle" /\ calls'[c].pc # "idle") =>
                  /\ UNCHANGED <<kustoClient, currentClusterUrl>>
                  /\ IF kustoClient = NoClient
                        \/ currentClusterUrl # calls'[c].formattedUrl
                     THEN /\ calls'[c].pc = "awaitToken"
                          /\ calls'[c].tokenReqs = 1
                          /\ calls'[c].constructs = 0
                          /\ calls'[c].client = NoClient
                     ELSE /\ calls'[c].pc = "awaitExecute"
                          /\ calls'[c].tokenReqs = 0
                          /\ calls'[c].constructs = 0
                          /\ calls'[c].client = kustoClient
           /\ (calls[c].pc = "awaitToken" /\ calls'[c].pc = "awaitExecute") =>
                  /\ calls'[c].constructs = 1
                  /\ calls'[c].client = kustoClient'
                  /\ kustoClient'.url = calls[c].formattedUrl
                  /\ currentClusterUrl' = calls[c].formattedUrl]_vars

\* after a handle for one identity was replaced by a handle for another, a
\* call for the first identity waits for a credential again
C17_Witness ==
    \E c \in CallIds :
        /\ calls[c].pc = "awaitToken"
        /\ kustoClient # NoClient
        /\ kustoClient.prev # Null
        /\ kustoClient.prev # kustoClient.url
        /\ calls[c].formattedUrl = kustoClient.prev

\* the counters of the call r: credential requests, constructions, queries
AtMostOnce(r) == r.tokenReqs <= 1 /\ r.constructs <= 1 /\ r.execs <= 1

\* C19: a call requests at most one credential, builds at most one handle
\* and issues at most one query; a call whose credential request failed has
\* built nothing and issued nothing, a call whose query or parsing failed has
\* issued that one query, and both have returned the failure envelope.
C19_NoRetry ==
    /\ \A c \in CallIds : AtMostOnce(calls[c])
    /\ AtMostOnce(done)
    /\ (Returned /\ done.caught = TokenErrorMsg) =>
           /\ done.tokenReqs = 1 /\ done.constructs = 0 /\ done.execs = 0
           /\ IsFailure(done, TokenErrorMsg)
    /\ (Returned /\ done.payload \in {"rejected", "noprimary", "unparsable"}) =>
           /\ done.execs = 1
           /\ IsFailure(done, done.caught)

\* a call whose credential request was rejected has returned
C19_Witness ==
    /\ Returned
    /\ done.caught = TokenErrorMsg
    /\ done.tokenReqs = 1
    /\ done.execs = 0

\* C18: while the cache is empty and a call waits for its credential, no other
\* call in flight for the same normalized identity has requested a credential
\* of its own or built a handle of its own.
C18_SameIdentityAcquiresOnce ==
    \A c1, c2 \in CallIds :
        (/\ c1 # c2
         /\ kustoClient = NoClient
         /\ calls[c1].pc = "awaitToken"
         /\ InFlight(c2)
         /\ calls[c2].formattedUrl = calls[c1].formattedUrl)
            => calls[c2].tokenReqs = 0 /\ calls[c2].constructs = 0

\* C20: in every state, also with calls in flight, the cached handle is
\* present exactly when the cached identity is, and the cached handle is
\* bound to the cached identity, which is the normalized form of the cluster
\* argument it was built for.
C20_CacheConsistent ==
    /\ kustoClient = NoClient <=> currentClusterUrl = Null
    /\ kustoClient # NoClient =>
           /\ kustoClient.url = currentClusterUrl
           /\ currentClusterUrl = FormatClusterUrl(kustoClient.arg)

\* two calls are in flight and the handle one of them built has since been
\* replaced in the cache by a handle for another identity
C20_Witness ==
    \E c, d \in CallIds :
        /\ c # d
        /\ calls[c].pc = "awaitExecute"
        /\ calls[c].constructs = 1
        /\ InFlight(d)
        /\ kustoClient # NoClient
        /\ kustoClient.url # calls[c].client.url

\* step a was performed before step b
Before(a, b) ==
    \E i, j \in DOMAIN shutdown : i < j /\ shutdown[i] = a /\ shutdown[j] = b

\* C15: a process that has exited on an interrupt signal has
\* logged the shutdown, then closed the protocol server, then closed the
\* logging sink, then called exit(0); it never exits without the logging sink
\* closed before.
C15_ShutdownOrder ==
    Exited =>
        /\ Before("shutdownLogged", "serverClosed")
        /\ Before("serverClosed", "loggerClosed")
        /\ Before("loggerClosed", "exit0")

\* the step starts a call in slot c
Enters(c) == calls[c].pc = "idle" /\ calls'[c].pc # "idle"

\* the step ends the call in slot c with a failure envelope
Fails(c) == calls[c].pc # "idle" /\ calls'[c].pc = "idle" /\ done'.caught # ""

\* C21: with calls made one after the other, a step in which the credential
\* request or the query (or the parsing of its result) of a call fails leaves
\* the cached handle and identity as they were; after a failed credential
\* request no handle is cached for the failed identity and the next call for
\* it requests a credential again; after a failed query the call's handle is
\* still the cached one and the next call for the same identity takes it
\* without a credential request.
C21_FailureLeavesCache ==
    [][\A c \in CallIds :
           /\ Fails(c) => UNCHANGED <<kustoClient, currentClusterUrl>>
           /\ (Fails(c) /\ calls[c].pc = "awaitToken") =>
                  /\ done'.caught = TokenErrorMsg
                  /\ currentClusterUrl' # calls[c].formattedUrl
                  /\ kustoClient'.url # calls[c].formattedUrl
           /\ (Fails(c) /\ calls[c].pc = "awaitExecute") =>
                  /\ kustoClient' = calls[c].client
                  /\ currentClusterUrl' = calls[c].formattedUrl
           /\ (Enters(c) /\ Returned /\ done.caught = TokenErrorMsg
                  /\ calls'[c].formattedUrl = done.formattedUrl) =>
                  calls'[c].pc = "awaitToken" /\ calls'[c].tokenReqs = 1
           /\ (Enters(c) /\ Returned /\ done.caught # "" /\ done.execs = 1
                  /\ calls'[c].formattedUrl = done.formattedUrl) =>
                  /\ calls'[c].pc = "awaitExecute"
                  /\ calls'[c].tokenReqs = 0
                  /\ calls'[c].client = done.client]_vars

\* a call whose credential request was rejected has returned and the handle
\* cached before, for another identity, is still cached
C21_Witness ==
    /\ Returned
    /\ done.caught = TokenErrorMsg
    /\ kustoClient # NoClient
    /\ currentClusterUrl = kustoClient.url
    /\ kustoClient.url # done.formattedUrl

\* the call r has issued its query on a handle bound to its own cluster
OwnHandle(r) ==
    /\ r.client # NoClient
    /\ r.client.url = r.formattedUrl
    /\ r.client.url = FormatClusterUrl(r.clusterUrl)
    /\ FormatClusterUrl(r.client.arg) = r.formattedUrl

\* C22: however calls overlap, every call that has issued its query has
\* issued it on a handle that was built for its own cluster identity, also
\* when the cache holds the handle of another cluster by then.
C22_QueryRunsOnOwnHandle ==
    /\ \A c \in CallIds : calls[c].execs > 0 => OwnHandle(calls[c])
    /\ (done.pc # "idle" /\ done.execs > 0) => OwnHandle(done)

\* calls for two different clusters both wait for their query, each on the
\* handle of its own cluster; the handle of the second replaced the handle
\* of the first in the cache while the first was waiting
C22_Witness ==
    \E c, d \in CallIds :
        /\ calls[c].pc = "awaitExecute" /\ calls[d].pc = "awaitExecute"
        /\ calls[c].formattedUrl # calls[d].formattedUrl
        /\ calls[c].constructs = 1 /\ calls[d].constructs = 1
        /\ kustoClient.prev = calls[c].formattedUrl
        /\ kustoClient = calls[d].client
        /\ calls[c].client.prev = Null
        /\ calls[d].client.url = calls[d].formattedUrl
        /\ calls[c].client.url = calls[c].formattedUrl

\* C23: the TOOL_INVOKED event of a tool invocation has the status "failure"
\* exactly when the request handler threw and "success" exactly when it
\* answered, also when the answer is a failure envelope with isError set; what
\* is thrown is the error handleToolCall raised, and it is thrown with the
\* event already emitted.
C23_EventStatusFollowsThrow ==
    (RouterDone /\ done.eventCount > 0) =>
        /\ done.event.status \in {"success", "failure"}
        /\ done.event.status = "failure" <=> done.pc = "threw"
        /\ done.event.status = "success" <=> done.pc = "responded"
        /\ (done.pc = "responded" /\ IsErrorSet(done.result)) =>
               done.event.status = "success"
        /\ done.pc = "threw" =>
               /\ done.thrown = ToolCallError(done.name, done.args)
               /\ done.thrown # NoError
               /\ done.eventCount = 1
        /\ done.pc = "responded" => done.thrown = NoError

\* a tool call answered with a failure envelope has been recorded as a success
C23_Witness ==
    /\ RouterDone
    /\ done.pc = "responded"
    /\ IsErrorSet(done.result)
    /\ done.eventCount = 1
    /\ done.event.status = "success"
    /\ done.event.name = done.name

\* the request handlers are registered
Registered(p) == p \in {"registered", "connected"}

\* C24: run() registers the request handlers only with the handler
\* initialized and connects only with the handlers registered; a tool call
\* is dispatched only on a connected server whose handler is initialized,
\* and none is answered with the "not initialized" failure; when the
\* initialization or the connection fails, run() has reported the error and
\* throws that error.
C24_StartupOrder ==
    [][/\ Registered(phase') => initialized'
       /\ (phase' = "registered" /\ phase # "registered") => phase = "constructed"
       /\ (phase' = "connected" /\ phase # "connected") => phase = "registered"
       /\ \A c \in CallIds :
              (Enters(c) /\ calls'[c].via = "router") =>
                  phase = "connected" /\ initialized
       /\ (done'.via = "router" /\ done' # done) =>
              /\ phase = "connected" /\ initialized
              /\ done'.caught # NotInitializedMsg
       /\ (phase' = "failed" /\ phase # "failed") =>
              /\ phase \in {"constructed", "registered"}
              /\ done'.via = "run"
              /\ done'.pc = "threw"
              /\ done'.caught \in {InitErrorMsg, ConnectErrorMsg}
              /\ done'.thrown.message = done'.caught
              /\ serverDef = 1 => done'.event.name = "SERVER_ERROR"
              /\ \A c \in CallIds : calls'[c].pc = "idle"]_vars

\* a tool call is waiting for its credential on a connected server whose
\* handler was initialized by run()
C24_Witness ==
    /\ phase = "connected"
    /\ initialized
    /\ \E c \in CallIds : calls[c].via = "router" /\ calls[c].pc = "awaitToken"

====
